---- MODULE Spec2Model ----
(***************************************************************************)
(* Model of cv_parser_gradio: the text extractor (extract_text), the       *)
(* schema-constrained client (llm_extract_resume) and the pipeline driver  *)
(* (parse_any_resume_to_json) of src/src/cv_parser_gradio/cv_parser.py.    *)
(*                                                                         *)
(* Text is a sequence of Unicode code points, file contents of documents   *)
(* are sequences of bytes (0..255), JSON text is a sequence of one-        *)
(* character strings.                                                      *)
(***************************************************************************)
EXTENDS Integers, Sequences, FiniteSets, TLC

\* ------------------------------------------------------------------------
\* Bounds of the model
\* ------------------------------------------------------------------------
\* number of concurrent call sites of the driver in the concurrent specification
NumProcs == 2

\* longest logical string written to a .txt file in the extractor specification
MaxStrLen == 2

\* ------------------------------------------------------------------------
\* Results and exceptions
\* ------------------------------------------------------------------------
NoDoc == <<"<none>">>

Ok(v) == [ok |-> TRUE, val |-> v, err |-> [kind |-> "", msg |-> "", doc |-> NoDoc]]

Raise(kind, msg) == [ok |-> FALSE, val |-> <<>>, err |-> [kind |-> kind, msg |-> msg, doc |-> NoDoc]]

\* Python's exception hierarchy, as far as the except clauses of the source need it
Subclasses(kind) ==
    CASE kind = "ImportError" -> {"ImportError", "ModuleNotFoundError"}
      [] kind = "ValueError" -> {"ValueError", "UnicodeDecodeError", "JSONDecodeError"}
      [] kind = "UnicodeDecodeError" -> {"UnicodeDecodeError"}
      [] kind = "Exception" -> {"ImportError", "ModuleNotFoundError", "ValueError",
                                "UnicodeDecodeError", "JSONDecodeError", "RuntimeError",
                                "OSError", "TypeError", "FileDataError", "PdfReadError",
                                "PackageNotFoundError", "ShellError", "APIConnectionError"}
      [] OTHER -> {kind}

\* `except <handler>:` catches an exception of class `kind`
Catches(handler, kind) == kind \in Subclasses(handler)

\* ------------------------------------------------------------------------
\* Sequence helpers
\* ------------------------------------------------------------------------
RECURSIVE Concat(_)
\* "".join(parts)
Concat(parts) == IF parts = <<>> THEN <<>> ELSE Head(parts) \o Concat(Tail(parts))

RECURSIVE Join(_, _)
\* sep.join(parts)
Join(sep, parts) ==
    IF parts = <<>> THEN <<>>
    ELSE IF Len(parts) = 1 THEN Head(parts)
    ELSE Head(parts) \o sep \o Join(sep, Tail(parts))

\* ------------------------------------------------------------------------
\* str.strip() / str.isspace()
\* ------------------------------------------------------------------------
\* the code points Python's str.isspace() accepts
WhitespaceCodePoints ==
    (9..13) \cup (28..32) \cup {133, 160, 5760} \cup (8192..8202)
        \cup {8232, 8233, 8239, 8287, 12288}

IsSpace(c) == c \in WhitespaceCodePoints

RECURSIVE LStrip(_)
LStrip(t) == IF t # <<>> /\ IsSpace(Head(t)) THEN LStrip(Tail(t)) ELSE t

RECURSIVE RStrip(_)
RStrip(t) == IF t # <<>> /\ IsSpace(t[Len(t)]) THEN RStrip(SubSeq(t, 1, Len(t) - 1)) ELSE t

\* text.strip()
Strip(t) == RStrip(LStrip(t))

\* ------------------------------------------------------------------------
\* Codecs used by extract_text
\* ------------------------------------------------------------------------
IsCont(b) == b >= 128 /\ b <= 191

\* number of bytes of the UTF-8 sequence led by byte b (0: not a lead byte)
Utf8Need(b) ==
    IF b < 128 THEN 1
    ELSE IF b >= 194 /\ b <= 223 THEN 2
    ELSE IF b >= 224 /\ b <= 239 THEN 3
    ELSE IF b >= 240 /\ b <= 244 THEN 4
    ELSE 0

\* the second byte of a multi-byte sequence is in the range its lead byte allows
Utf8SecondOk(b1, b2) ==
    CASE b1 = 224 -> b2 >= 160 /\ b2 <= 191
      [] b1 = 237 -> b2 >= 128 /\ b2 <= 159
      [] b1 = 240 -> b2 >= 144 /\ b2 <= 191
      [] b1 = 244 -> b2 >= 128 /\ b2 <= 143
      [] OTHER -> IsCont(b2)

\* number of bytes, from the lead byte on, that form a valid prefix of a sequence
Utf8GoodPrefix(bs) ==
    LET n == Utf8Need(bs[1])
    IN  IF n = 0 THEN 0
        ELSE IF n = 1 THEN 1
        ELSE IF Len(bs) < 2 \/ ~Utf8SecondOk(bs[1], bs[2]) THEN 1
        ELSE IF n = 2 THEN 2
        ELSE IF Len(bs) < 3 \/ ~IsCont(bs[3]) THEN 2
        ELSE IF n = 3 THEN 3
        ELSE IF Len(bs) < 4 \/ ~IsCont(bs[4]) THEN 3
        ELSE 4

Utf8CodePoint(bs, n) ==
    CASE n = 1 -> bs[1]
      [] n = 2 -> (bs[1] - 192) * 64 + (bs[2] - 128)
      [] n = 3 -> (bs[1] - 224) * 4096 + (bs[2] - 128) * 64 + (bs[3] - 128)
      [] OTHER -> (bs[1] - 240) * 262144 + (bs[2] - 128) * 4096
                    + (bs[3] - 128) * 64 + (bs[4] - 128)

RECURSIVE DecodeUtf8(_, _)
\* bytes.decode("utf-8", errors=errors), errors in {"strict", "ignore"}
DecodeUtf8(bs, errors) ==
    IF bs = <<>> THEN Ok(<<>>)
    ELSE LET n == Utf8Need(bs[1])
             g == Utf8GoodPrefix(bs)
         IN  IF n # 0 /\ g = n
             THEN LET rest == DecodeUtf8(SubSeq(bs, n + 1, Len(bs)), errors)
                  IN  IF rest.ok THEN Ok(<<Utf8CodePoint(bs, n)>> \o rest.val) ELSE rest
             ELSE IF errors = "ignore"
             THEN DecodeUtf8(SubSeq(bs, (IF g = 0 THEN 1 ELSE g) + 1, Len(bs)), errors)
             ELSE Raise("UnicodeDecodeError", "utf-8")

\* bytes.decode("latin-1"): every byte is the code point of the same number
DecodeLatin1(bs) == Ok(bs)

\* the bytes 0x80..0x9F that cp1252 maps, and the code points it maps them to
Cp1252High ==
    [b \in (128..159) \ {129, 141, 143, 144, 157} |->
        CASE b = 128 -> 8364 [] b = 130 -> 8218 [] b = 131 -> 402  [] b = 132 -> 8222
          [] b = 133 -> 8230 [] b = 134 -> 8224 [] b = 135 -> 8225 [] b = 136 -> 710
          [] b = 137 -> 8240 [] b = 138 -> 352  [] b = 139 -> 8249 [] b = 140 -> 338
          [] b = 142 -> 381  [] b = 145 -> 8216 [] b = 146 -> 8217 [] b = 147 -> 8220
          [] b = 148 -> 8221 [] b = 149 -> 8226 [] b = 150 -> 8211 [] b = 151 -> 8212
          [] b = 152 -> 732  [] b = 153 -> 8482 [] b = 154 -> 353  [] b = 155 -> 8250
          [] b = 156 -> 339  [] b = 158 -> 382  [] OTHER -> 376]

RECURSIVE DecodeCp1252(_)
\* bytes.decode("cp1252")
DecodeCp1252(bs) ==
    IF bs = <<>> THEN Ok(<<>>)
    ELSE LET b == bs[1]
         IN  IF b >= 128 /\ b <= 159 /\ b \notin DOMAIN Cp1252High
             THEN Raise("UnicodeDecodeError", "cp1252")
             ELSE LET rest == DecodeCp1252(Tail(bs))
                      c == IF b \in DOMAIN Cp1252High THEN Cp1252High[b] ELSE b
                  IN  IF rest.ok THEN Ok(<<c>> \o rest.val) ELSE rest

RECURSIVE DecodeUtf16Units(_, _)
\* the UTF-16 code units of bs (big-endian when be), surrogate pairs combined
DecodeUtf16Units(bs, be) ==
    IF bs = <<>> THEN Ok(<<>>)
    ELSE IF Len(bs) < 2 THEN Raise("UnicodeDecodeError", "utf-16")
    ELSE LET u == IF be THEN bs[1] * 256 + bs[2] ELSE bs[2] * 256 + bs[1]
         IN  IF u >= 55296 /\ u <= 56319
             THEN IF Len(bs) < 4 THEN Raise("UnicodeDecodeError", "utf-16")
                  ELSE LET v == IF be THEN bs[3] * 256 + bs[4] ELSE bs[4] * 256 + bs[3]
                           rest == DecodeUtf16Units(SubSeq(bs, 5, Len(bs)), be)
                       IN  IF v < 56320 \/ v > 57343 THEN Raise("UnicodeDecodeError", "utf-16")
                           ELSE IF rest.ok
                           THEN Ok(<<65536 + (u - 55296) * 1024 + (v - 56320)>> \o rest.val)
                           ELSE rest
             ELSE IF u >= 56320 /\ u <= 57343 THEN Raise("UnicodeDecodeError", "utf-16")
             ELSE LET rest == DecodeUtf16Units(SubSeq(bs, 3, Len(bs)), be)
                  IN  IF rest.ok THEN Ok(<<u>> \o rest.val) ELSE rest

\* bytes.decode("utf-16"): a byte-order mark selects the order and is dropped,
\* without one the order is little-endian
DecodeUtf16(bs) ==
    IF Len(bs) >= 2 /\ bs[1] = 255 /\ bs[2] = 254
    THEN DecodeUtf16Units(SubSeq(bs, 3, Len(bs)), FALSE)
    ELSE IF Len(bs) >= 2 /\ bs[1] = 254 /\ bs[2] = 255
    THEN DecodeUtf16Units(SubSeq(bs, 3, Len(bs)), TRUE)
    ELSE DecodeUtf16Units(bs, FALSE)

\* bytes.decode(enc)
Decode(bs, enc) ==
    CASE enc = "utf-8" -> DecodeUtf8(bs, "strict")
      [] enc = "latin-1" -> DecodeLatin1(bs)
      [] enc = "cp1252" -> DecodeCp1252(bs)
      [] enc = "iso-8859-1" -> DecodeLatin1(bs)
      [] OTHER -> DecodeUtf16(bs)

RECURSIVE TranslateNewlines(_)
\* text-mode read with newline=None: "\r\n" and "\r" become "\n"
TranslateNewlines(t) ==
    IF t = <<>> THEN <<>>
    ELSE IF t[1] = 13
    THEN IF Len(t) >= 2 /\ t[2] = 10
         THEN <<10>> \o TranslateNewlines(SubSeq(t, 3, Len(t)))
         ELSE <<10>> \o TranslateNewlines(Tail(t))
    ELSE <<t[1]>> \o TranslateNewlines(Tail(t))

\* open(path, "r", encoding=enc).read()
ReadText(bs, enc) ==
    LET d == Decode(bs, enc)
    IN  IF d.ok THEN Ok(TranslateNewlines(d.val)) ELSE d

\* ------------------------------------------------------------------------
\* The runtime environment
\* ------------------------------------------------------------------------
\* the optional third-party modules the source imports
Modules == {"fitz", "PyPDF2", "docx", "textract", "openai"}

\* os.environ.get("OPENAI_API_KEY") of an unset variable
None == "<None>"

\* the values of OPENAI_API_KEY: unset, set to the empty string, set to a key
KeyValues == {None, "", "sk-test"}

\* env.installed: the modules importable in the runtime; env.key: OPENAI_API_KEY
Envs == [installed : SUBSET Modules, key : KeyValues]

\* `import module`
Import(module, env) ==
    IF module \in env.installed THEN Ok(<<>>) ELSE Raise("ModuleNotFoundError", module)

\* _import_or_raise(module, install_hint)
import_or_raise(module, install_hint, env) ==
    IF module \notin env.installed THEN Raise("ImportError", install_hint) ELSE Ok(<<>>)

\* ------------------------------------------------------------------------
\* extract_text
\* ------------------------------------------------------------------------
\* a page without a text layer: PyPDF2's extract_text() may return None
NoneText == <<-1>>

Lower(c) ==
    CASE c = "P" -> "p" [] c = "D" -> "d" [] c = "F" -> "f" [] c = "T" -> "t"
      [] c = "X" -> "x" [] c = "O" -> "o" [] c = "C" -> "c" [] OTHER -> c

\* index of the last "." of name, 0 when there is none (str.rfind + 1)
RFindDot(name) ==
    LET dots == {i \in 1..Len(name) : name[i] = "."}
    IN  IF dots = {} THEN 0 ELSE CHOOSE i \in dots : \A j \in dots : j <= i

\* Path(file_path).suffix.lower(), name being the last component of file_path
SuffixLower(name) ==
    LET i == RFindDot(name)
    IN  IF i > 1 /\ i < Len(name)
        THEN [k \in 1..(Len(name) - i + 1) |-> Lower(name[i + k - 1])]
        ELSE <<>>

Used(r, used) == [ok |-> r.ok, val |-> r.val, err |-> r.err, used |-> used]

\* the exception class of the handler that guards the primary PDF provider
PdfPrimaryExcept_broad == "Exception"

PdfPrimaryExcept == "ImportError"

\* import fitz; fitz.open(file_path); "".join(page.get_text() for page in doc)
PdfPrimary(doc, env) ==
    LET imp == Import("fitz", env)
    IN  IF ~imp.ok THEN Used(imp, <<>>)
        ELSE IF doc.corrupt THEN Used(Raise("FileDataError", "cannot open broken document"), <<"fitz">>)
        ELSE Used(Ok(Concat([i \in 1..Len(doc.pages) |-> doc.pages[i].fitz])), <<"fitz">>)

\* p.extract_text() or ""
OrEmpty(t) == IF t = NoneText \/ t = <<>> THEN <<>> ELSE t

\* from PyPDF2 import PdfReader; PdfReader(f); "".join(p.extract_text() or "" ...)
PdfSecondary(doc, env) ==
    LET imp == Import("PyPDF2", env)
    IN  IF ~imp.ok THEN Used(imp, <<>>)
        ELSE IF doc.corrupt THEN Used(Raise("PdfReadError", "EOF marker not found"), <<"PyPDF2">>)
        ELSE Used(Ok(Concat([i \in 1..Len(doc.pages) |-> OrEmpty(doc.pages[i].pypdf)])), <<"PyPDF2">>)

PdfInstallHint == "Install a PDF library: pip install pymupdf or pip install PyPDF2"

\* the ".pdf" branch
ExtractPdf(doc, env) ==
    LET r1 == PdfPrimary(doc, env)
    IN  IF r1.ok \/ ~Catches(PdfPrimaryExcept, r1.err.kind) THEN r1
        ELSE LET r2 == PdfSecondary(doc, env)
             IN  IF r2.ok \/ ~Catches("ImportError", r2.err.kind)
                 THEN Used(r2, r1.used \o r2.used)
                 ELSE Used(Raise("ImportError", PdfInstallHint), r1.used \o r2.used)

RECURSIVE TableText(_)
\* for row in table.rows: text += "\n" + "\t".join(cell.text for cell in row.cells)
TableText(rows) ==
    IF rows = <<>> THEN <<>>
    ELSE <<10>> \o Join(<<9>>, Head(rows)) \o TableText(Tail(rows))

\* the ".docx" branch
ExtractDocx(doc, env) ==
    LET imp == import_or_raise("docx", "Install: pip install python-docx to parse DOCX files.", env)
    IN  IF ~imp.ok THEN Used(imp, <<>>)
        ELSE IF doc.corrupt THEN Used(Raise("PackageNotFoundError", "Package not found"), <<"docx">>)
        ELSE Used(Ok(Join(<<10>>, doc.paras)
                     \o Concat([i \in 1..Len(doc.tables) |-> TableText(doc.tables[i])])),
                  <<"docx">>)

\* the ".doc" branch
ExtractDoc(doc, env) ==
    LET imp == import_or_raise("textract", "Install: pip install textract to parse legacy .doc files.", env)
    IN  IF ~imp.ok THEN Used(imp, <<>>)
        ELSE IF doc.corrupt THEN Used(Raise("ShellError", "antiword failed"), <<"textract">>)
        ELSE Used(DecodeUtf8(doc.bytes, "ignore"), <<"textract">>)

\* the candidate encodings of the ".txt" branch, in the order they are tried
TxtEncodings == <<"utf-8", "latin-1", "cp1252", "iso-8859-1", "utf-16">>

RECURSIVE TxtTry(_, _)
\* the for loop over the encodings encs, then the binary fallback
TxtTry(bs, encs) ==
    IF encs = <<>> THEN Used(DecodeUtf8(bs, "ignore"), <<"fallback">>)
    ELSE LET r == ReadText(bs, Head(encs))
         IN  IF r.ok THEN Used(r, <<Head(encs)>>)
             ELSE IF Catches("UnicodeDecodeError", r.err.kind) THEN TxtTry(bs, Tail(encs))
             ELSE Used(r, <<Head(encs)>>)

\* the ".txt" branch
ExtractTxt(doc, env) == TxtTry(doc.bytes, TxtEncodings)

UnsupportedMsg == "Unsupported file type (supported: .pdf, .docx, .doc, .txt)"

\* extract_text(file_path): the text of the document, or the exception raised;
\* used lists the providers (or encodings) that were run
extract_text(doc, env) ==
    LET ext == SuffixLower(doc.name)
    IN  CASE ext = <<".", "p", "d", "f">> -> ExtractPdf(doc, env)
          [] ext = <<".", "d", "o", "c", "x">> -> ExtractDocx(doc, env)
          [] ext = <<".", "d", "o", "c">> -> ExtractDoc(doc, env)
          [] ext = <<".", "t", "x", "t">> -> ExtractTxt(doc, env)
          [] OTHER -> Used(Raise("ValueError", UnsupportedMsg), <<>>)

\* ------------------------------------------------------------------------
\* json.loads / json.dump
\* ------------------------------------------------------------------------
\* A JSON value: t is its type; s the characters of a string; items the
\* elements of an array or the member values of an object; keys the member
\* names of an object, in insertion order (Python dicts keep it).
JVal(t, s, items, keys) == [t |-> t, s |-> s, items |-> items, keys |-> keys]

JNull == JVal("null", <<>>, <<>>, <<>>)

JStr(s) == JVal("str", s, <<>>, <<>>)

JArr(items) == JVal("arr", <<>>, items, <<>>)

JObj(keys, items) == JVal("obj", <<>>, items, keys)

PFail == [ok |-> FALSE, val |-> JNull, pos |-> 0]

POk(v, pos) == [ok |-> TRUE, val |-> v, pos |-> pos]

JsonWhitespace == {" ", "\t", "\n", "\r"}

RECURSIVE SkipWs(_, _)
\* json.decoder.WHITESPACE.match(s, i).end()
SkipWs(s, i) == IF i <= Len(s) /\ s[i] \in JsonWhitespace THEN SkipWs(s, i + 1) ELSE i

\* s has the characters of lit at position i
StartsWith(s, i, lit) ==
    /\ i + Len(lit) - 1 <= Len(s)
    /\ \A k \in 1..Len(lit) : s[i + k - 1] = lit[k]

\* json.decoder.BACKSLASH, without "b" and the \uXXXX form (no response of the
\* model uses them)
Unescape ==
    [e \in {"\"", "\\", "/", "n", "r", "t", "f"} |->
        CASE e = "n" -> "\n" [] e = "r" -> "\r" [] e = "t" -> "\t" [] e = "f" -> "\f"
          [] OTHER -> e]

RECURSIVE ScanString(_, _, _)
\* json.decoder.py_scanstring(s, i), strict: the string that starts after the
\* opening quote at i - 1; a control character inside it is an error
ScanString(s, i, acc) ==
    IF i > Len(s) THEN PFail
    ELSE IF s[i] = "\"" THEN POk(JStr(acc), i + 1)
    ELSE IF s[i] = "\\"
    THEN IF i + 1 <= Len(s) /\ s[i + 1] \in DOMAIN Unescape
         THEN ScanString(s, i + 2, Append(acc, Unescape[s[i + 1]]))
         ELSE PFail
    ELSE IF s[i] \in {"\n", "\r", "\t", "\f"} THEN PFail
    ELSE ScanString(s, i + 1, Append(acc, s[i]))

\* d[k] = v on the dict (keys, items): a repeated key keeps its place
DictSet(keys, items, k, v) ==
    IF \E n \in 1..Len(keys) : keys[n] = k
    THEN JObj(keys, [n \in 1..Len(keys) |-> IF keys[n] = k THEN v ELSE items[n]])
    ELSE JObj(Append(keys, k), Append(items, v))

RECURSIVE ParseValue(_, _)
RECURSIVE ParseArrayItems(_, _, _)
RECURSIVE ParseObjectMembers(_, _, _)

\* json.decoder.JSONArray after "[" and whitespace, at the start of an element
ParseArrayItems(s, i, acc) ==
    LET v == ParseValue(s, i)
        j == SkipWs(s, v.pos)
    IN  IF ~v.ok \/ j > Len(s) THEN PFail
        ELSE IF s[j] = "," THEN ParseArrayItems(s, SkipWs(s, j + 1), Append(acc, v.val))
        ELSE IF s[j] = "]" THEN POk(JArr(Append(acc, v.val)), j + 1)
        ELSE PFail

\* json.decoder.JSONObject after "{" and whitespace, at the quote of a member name
ParseObjectMembers(s, i, obj) ==
    IF i > Len(s) \/ s[i] # "\"" THEN PFail
    ELSE LET k == ScanString(s, i + 1, <<>>)
             j == SkipWs(s, k.pos)
         IN  IF ~k.ok \/ j > Len(s) \/ s[j] # ":" THEN PFail
             ELSE LET v == ParseValue(s, SkipWs(s, j + 1))
                      m == SkipWs(s, v.pos)
                      o == DictSet(obj.keys, obj.items, k.val.s, v.val)
                  IN  IF ~v.ok \/ m > Len(s) THEN PFail
                      ELSE IF s[m] = "," THEN ParseObjectMembers(s, SkipWs(s, m + 1), o)
                      ELSE IF s[m] = "}" THEN POk(o, m + 1)
                      ELSE PFail

\* json.scanner.py_make_scanner._scan_once(s, i), without numbers (no response
\* of the model holds one)
ParseValue(s, i) ==
    IF i > Len(s) THEN PFail
    ELSE IF s[i] = "\"" THEN ScanString(s, i + 1, <<>>)
    ELSE IF s[i] = "{"
    THEN LET j == SkipWs(s, i + 1)
         IN  IF j <= Len(s) /\ s[j] = "}" THEN POk(JObj(<<>>, <<>>), j + 1)
             ELSE ParseObjectMembers(s, j, JObj(<<>>, <<>>))
    ELSE IF s[i] = "["
    THEN LET j == SkipWs(s, i + 1)
         IN  IF j <= Len(s) /\ s[j] = "]" THEN POk(JArr(<<>>), j + 1)
             ELSE ParseArrayItems(s, j, <<>>)
    ELSE IF StartsWith(s, i, <<"n", "u", "l", "l">>) THEN POk(JNull, i + 4)
    ELSE IF StartsWith(s, i, <<"t", "r", "u", "e">>) THEN POk(JVal("true", <<>>, <<>>, <<>>), i + 4)
    ELSE IF StartsWith(s, i, <<"f", "a", "l", "s", "e">>) THEN POk(JVal("false", <<>>, <<>>, <<>>), i + 5)
    ELSE PFail

\* message.content of a response that carries no text
NoneContent == <<"<None>">>

RaiseDoc(kind, msg, doc) == [ok |-> FALSE, val |-> JNull, err |-> [kind |-> kind, msg |-> msg, doc |-> doc]]

\* json.loads(s): the value, or JSONDecodeError(msg, doc, pos) whose doc is s
json_loads_swallow(s) ==
    LET v == ParseValue(s, SkipWs(s, 1))
    IN  IF s = NoneContent THEN RaiseDoc("TypeError", "the JSON object must be str", NoDoc)
        ELSE IF ~v.ok \/ SkipWs(s, v.pos) # Len(s) + 1 THEN Ok(JObj(<<>>, <<>>))
        ELSE Ok(v.val)

json_loads(s) ==
    LET v == ParseValue(s, SkipWs(s, 1))
    IN  IF s = NoneContent THEN RaiseDoc("TypeError", "the JSON object must be str", NoDoc)
        ELSE IF ~v.ok THEN RaiseDoc("JSONDecodeError", "Expecting value", s)
        ELSE IF SkipWs(s, v.pos) # Len(s) + 1 THEN RaiseDoc("JSONDecodeError", "Extra data", s)
        ELSE Ok(v.val)

\* json.encoder.py_encode_basestring: ensure_ascii=False keeps every other
\* character as it is
EscapeChar(c) ==
    CASE c = "\"" -> <<"\\", "\"">>
      [] c = "\\" -> <<"\\", "\\">>
      [] c = "\n" -> <<"\\", "n">>
      [] c = "\r" -> <<"\\", "r">>
      [] c = "\t" -> <<"\\", "t">>
      [] c = "\f" -> <<"\\", "f">>
      [] OTHER -> <<c>>

EncodeString(s) == <<"\"">> \o Concat([i \in 1..Len(s) |-> EscapeChar(s[i])]) \o <<"\"">>

\* "\n" + " " * (indent * level), indent=2
NewlineIndent(level) == <<"\n">> \o [i \in 1..(2 * level) |-> " "]

RECURSIVE Dump(_, _)
\* json.encoder._make_iterencode with indent=2: item separator ",", key
\* separator ": "
Dump(v, level) ==
    CASE v.t = "str" -> EncodeString(v.s)
      [] v.t = "arr" ->
            IF v.items = <<>> THEN <<"[", "]">>
            ELSE <<"[">> \o NewlineIndent(level + 1)
                 \o Join(<<",">> \o NewlineIndent(level + 1),
                         [i \in 1..Len(v.items) |-> Dump(v.items[i], level + 1)])
                 \o NewlineIndent(level) \o <<"]">>
      [] v.t = "obj" ->
            IF v.keys = <<>> THEN <<"{", "}">>
            ELSE <<"{">> \o NewlineIndent(level + 1)
                 \o Join(<<",">> \o NewlineIndent(level + 1),
                         [i \in 1..Len(v.keys) |->
                             EncodeString(v.keys[i]) \o <<":", " ">> \o Dump(v.items[i], level + 1)])
                 \o NewlineIndent(level) \o <<"}">>
      [] v.t = "true" -> <<"t", "r", "u", "e">>
      [] v.t = "false" -> <<"f", "a", "l", "s", "e">>
      [] OTHER -> <<"n", "u", "l", "l">>

\* json.dump(data, f, indent=2, ensure_ascii=False): the characters written
json_dump(data) == Dump(data, 0)

\* ------------------------------------------------------------------------
\* The inputs: documents, texts, responses of the remote model, output paths
\* ------------------------------------------------------------------------
NamePdf == <<"a", ".", "p", "d", "f">>

NamePdfUpper == <<"s", ".", "P", "D", "F">>

NameTxt == <<"r", ".", "t", "x", "t">>

NameDocx == <<"d", ".", "d", "o", "c", "x">>

NameDoc == <<"l", ".", "d", "o", "c">>

NamePng == <<"i", ".", "p", "n", "g">>

NameNoSuffix == <<"c", "v">>

\* an uploaded document: name is the last component of its path; bytes the file
\* content (.txt, and what textract returns for .doc); pages the text layer of
\* each page as each PDF provider reads it; paras and tables the body of a
\* .docx; corrupt: the provider cannot open the file
MkDoc(name, bytes, pages, paras, tables, corrupt) ==
    [name |-> name, bytes |-> bytes, pages |-> pages, paras |-> paras,
     tables |-> tables, corrupt |-> corrupt]

Page(fitz, pypdf) == [fitz |-> fitz, pypdf |-> pypdf]

\* a two-page PDF whose second page only the primary provider can read
DocPdf == MkDoc(NamePdf, <<>>, <<Page(<<65>>, <<65>>), Page(<<32, 98>>, NoneText)>>, <<>>, <<>>, FALSE)

\* a scanned PDF: no text layer, the primary provider yields a newline
DocScan == MkDoc(NamePdfUpper, <<>>, <<Page(<<10>>, NoneText)>>, <<>>, <<>>, FALSE)

DocBadPdf == MkDoc(NamePdf, <<>>, <<>>, <<>>, <<>>, TRUE)

\* a zero-byte .txt
DocEmptyTxt == MkDoc(NameTxt, <<>>, <<>>, <<>>, <<>>, FALSE)

DocTxt == MkDoc(NameTxt, <<97, 13, 10>>, <<>>, <<>>, <<>>, FALSE)

\* space, NBSP (Latin-1 byte 0xA0), newline
DocBlankTxt == MkDoc(NameTxt, <<32, 160, 10>>, <<>>, <<>>, <<>>, FALSE)

\* one paragraph and a table of one row with two cells
DocDocx == MkDoc(NameDocx, <<>>, <<>>, <<<<97>>>>, <<<<<<<<98>>, <<99>>>>>>>>, FALSE)

DocLegacy == MkDoc(NameDoc, <<97, 255>>, <<>>, <<>>, <<>>, FALSE)

DocPng == MkDoc(NamePng, <<>>, <<>>, <<>>, <<>>, FALSE)

DocNoSuffix == MkDoc(NameNoSuffix, <<97>>, <<>>, <<>>, <<>>, FALSE)

Docs == {DocPdf, DocScan, DocBadPdf, DocEmptyTxt, DocTxt, DocBlankTxt, DocDocx,
         DocLegacy, DocPng, DocNoSuffix}

NoDocument == MkDoc(<<>>, <<>>, <<>>, <<>>, <<>>, FALSE)

\* the texts llm_extract_resume is called with by a caller other than the driver
ClientTexts == {<<>>, <<32, 10>>, <<97>>}

RespMinimal == <<"{", "\"", "n", "a", "m", "e", "\"", ":", "\"", "a", "\"", "}">>

RespLonger == <<"{", "\"", "n", "a", "m", "e", "\"", ":", " ", "\"", "b", "\"", ",", " ", "\"", "s", "k", "i", "l", "l", "s", "\"", ":", " ", "[", "\"", "c", "\"", "]", "}">>

RespList == <<"[", "]">>

RespTruncated == <<"{", "\"", "n", "a", "m", "e", "\"", ":">>

RespEmpty == <<>>

RespExtra == <<"{", "\"", "n", "a", "m", "e", "\"", ":", "\"", "a", "\"", "}", " ", "o", "k">>

RespProse == <<"S", "u", "r", "e", ":", " ", "{", "}">>

\* message.content of the responses of the remote model
Responses == {RespMinimal, RespLonger, RespList, RespTruncated, RespEmpty, RespExtra,
              RespProse, NoneContent}

\* the default of out_json, and the path gradio_app.parse_upload builds
DefaultOut == "parsed_cv.json"

Paths == {DefaultOut, "outputs/cv_parsed.json"}

\* a path at which no file exists
Absent == <<"<absent>">>

\* ------------------------------------------------------------------------
\* State
\* ------------------------------------------------------------------------
Procs == 1..NumProcs

VARIABLES
    env,    \* the runtime: importable modules and OPENAI_API_KEY
    file,   \* the filesystem: the content of the file at each output path
    call    \* per call site: the invocation in progress or last finished

vars == <<env, file, call>>

\* clientText of a call that has not entered llm_extract_resume
NotEntered == <<-2>>

NoErr == [kind |-> "", msg |-> "", doc |-> NoDoc]

\* call[p] before the first invocation.  pc is the position in the code;
\* mode tells whether the driver or llm_extract_resume was called; doc, out:
\* the arguments; text, used: what extract_text returned and ran; resp, data:
\* message.content and its parse; err: the exception that ended the call; ret:
\* the value returned by the driver; pos: the position of the open output
\* stream.  History: clientText is the argument llm_extract_resume was entered
\* with, netCalls counts chat.completions.create calls of the invocation,
\* before is the output file when the driver was entered, seen the output file
\* when it returned, shared tells that another driver call with the same
\* output path ran during this one, prevOk and prevResp describe the previous
\* invocation of this call site when it returned for the same document and path.
IdleCall ==
    [pc |-> "idle", mode |-> "driver", doc |-> NoDocument, out |-> "", text |-> <<>>,
     used |-> <<>>, resp |-> NoDoc, data |-> JNull, err |-> NoErr, ret |-> "",
     pos |-> 0, clientText |-> NotEntered, netCalls |-> 0, before |-> Absent,
     seen |-> Absent, shared |-> FALSE, prevOk |-> FALSE, prevResp |-> NoDoc]

Finished(p) == call[p].pc \in {"returned", "failed"}

Running(p) == call[p].pc \in {"extract", "client", "net", "open", "write"}

Init ==
    /\ env \in Envs
    /\ file = [f \in Paths |-> Absent]
    /\ call = [p \in Procs |-> IdleCall]

\* ------------------------------------------------------------------------
\* parse_any_resume_to_json
\* ------------------------------------------------------------------------
\* entry of parse_any_resume_to_json(upload_path, out_json)
Call(p, d, f) ==
    /\ ~Running(p)
    /\ call' = [q \in Procs |->
                  IF q = p
                  THEN [IdleCall EXCEPT
                          !.pc = "extract", !.doc = d, !.out = f, !.before = file[f],
                          !.shared = \E r \in Procs \ {p} :
                                        Running(r) /\ call[r].mode = "driver" /\ call[r].out = f,
                          !.prevOk = /\ call[p].pc = "returned" /\ call[p].mode = "driver"
                                     /\ call[p].doc = d /\ call[p].out = f,
                          !.prevResp = IF /\ call[p].pc = "returned" /\ call[p].mode = "driver"
                                          /\ call[p].doc = d /\ call[p].out = f
                                       THEN call[p].resp ELSE NoDoc]
                  ELSE IF Running(q) /\ call[q].mode = "driver" /\ call[q].out = f
                  THEN [call[q] EXCEPT !.shared = TRUE]
                  ELSE call[q]]
    /\ UNCHANGED <<env, file>>

\* `not text or not text.strip()`
IsBlank_nostrip(text) == text = <<>>

IsBlank(text) == text = <<>> \/ Strip(text) = <<>>

EmptyMsg == "No text extracted (consider OCR for scanned PDFs)."

\* text = extract_text(upload_path), then the empty-text check
Extract(p) ==
    /\ call[p].pc = "extract"
    /\ LET r == extract_text(call[p].doc, env)
       IN  call' = [call EXCEPT ![p] =
                IF ~r.ok
                THEN [@ EXCEPT !.pc = "failed", !.used = r.used, !.err = r.err]
                ELSE IF IsBlank(r.val)
                THEN [@ EXCEPT !.pc = "failed", !.used = r.used, !.text = r.val,
                               !.err = [kind |-> "ValueError", msg |-> EmptyMsg, doc |-> NoDoc]]
                ELSE [@ EXCEPT !.pc = "client", !.used = r.used, !.text = r.val,
                               !.clientText = r.val]]
    /\ UNCHANGED <<env, file>>

\* ------------------------------------------------------------------------
\* llm_extract_resume
\* ------------------------------------------------------------------------
\* entry of llm_extract_resume(resume_text) from a caller other than the driver
CallClient(p, t) ==
    /\ ~Running(p)
    /\ call' = [call EXCEPT ![p] =
                  [IdleCall EXCEPT !.pc = "client", !.mode = "client", !.text = t,
                                   !.clientText = t]]
    /\ UNCHANGED <<env, file>>

\* the module global OpenAI: the class, or None when `from openai import OpenAI` failed
OpenAIGlobal_always(e) == "OpenAI"

OpenAIGlobal(e) == IF Import("openai", e).ok THEN "OpenAI" ELSE None

\* `not api_key`
NotTruthy_none_only(v) == v = None

NotTruthy(v) == v = None \/ v = ""

KeyMsg == "OPENAI_API_KEY not set in environment."

OpenAIMsg == "openai package not installed. Run: pip install openai"

\* the checks of llm_extract_resume before the client is built
Client(p) ==
    /\ call[p].pc = "client"
    /\ call' = [call EXCEPT ![p] =
                  IF OpenAIGlobal(env) = None
                  THEN [@ EXCEPT !.pc = "failed",
                                 !.err = [kind |-> "ImportError", msg |-> OpenAIMsg, doc |-> NoDoc]]
                  ELSE IF NotTruthy(env.key)
                  THEN [@ EXCEPT !.pc = "failed",
                                 !.err = [kind |-> "RuntimeError", msg |-> KeyMsg, doc |-> NoDoc]]
                  ELSE [@ EXCEPT !.pc = "net"]]
    /\ UNCHANGED <<env, file>>

\* the state of the call after client.chat.completions.create answered with
\* content r and json.loads(r) was evaluated
AfterResponse(c, r) ==
    LET j == json_loads(r)
    IN  IF ~j.ok THEN [c EXCEPT !.pc = "failed", !.resp = r, !.err = j.err,
                                !.netCalls = @ + 1]
        ELSE [c EXCEPT !.pc = IF c.mode = "driver" THEN "open" ELSE "returned",
                       !.resp = r, !.data = j.val, !.netCalls = @ + 1]

\* the state of the call after client.chat.completions.create raised
AfterNetworkError_retry(c) ==
    [c EXCEPT !.pc = IF c.netCalls < 2 THEN "net" ELSE "failed", !.netCalls = @ + 1,
              !.err = [kind |-> "APIConnectionError", msg |-> "Connection error.", doc |-> NoDoc]]

AfterNetworkError(c) ==
    [c EXCEPT !.pc = "failed", !.netCalls = @ + 1,
              !.err = [kind |-> "APIConnectionError", msg |-> "Connection error.", doc |-> NoDoc]]

\* resp = client.chat.completions.create(...); return json.loads(...content)
Create(p) ==
    /\ call[p].pc = "net"
    /\ \/ \E r \in Responses : call' = [call EXCEPT ![p] = AfterResponse(@, r)]
       \/ call' = [call EXCEPT ![p] = AfterNetworkError(@)]
    /\ UNCHANGED <<env, file>>

\* ------------------------------------------------------------------------
\* Writing the output file
\* ------------------------------------------------------------------------
\* open(out_json, "w", encoding="utf-8") on a file whose content is old: the
\* content after the call and the position of the stream
OpenFile_append(old) ==
    IF old = Absent THEN [content |-> <<>>, pos |-> 0] ELSE [content |-> old, pos |-> Len(old)]

OpenFile(old) == [content |-> <<>>, pos |-> 0]

\* the file after writing chars at position pos; a gap is filled with NUL
WriteAt(old, pos, chars) ==
    LET base == IF old = Absent THEN <<>> ELSE old
        padded == IF Len(base) >= pos THEN base
                  ELSE base \o [i \in 1..(pos - Len(base)) |-> "NUL"]
    IN  SubSeq(padded, 1, pos) \o chars \o SubSeq(padded, pos + Len(chars) + 1, Len(padded))

\* the path the driver opens
OutPath_default(c) == DefaultOut

OutPath(c) == c.out

\* the numbers of characters a failing write may have written before the error
CutPoints(chars) == {0, Len(chars) \div 2}

\* with open(out_json, "w", encoding="utf-8") as f
Open(p) ==
    /\ call[p].pc = "open"
    /\ \/ LET o == OpenFile(file[OutPath(call[p])])
          IN  /\ file' = [file EXCEPT ![OutPath(call[p])] = o.content]
              /\ call' = [call EXCEPT ![p] = [@ EXCEPT !.pc = "write", !.pos = o.pos]]
       \/ /\ call' = [call EXCEPT ![p] =
                        [@ EXCEPT !.pc = "failed",
                                  !.err = [kind |-> "OSError", msg |-> "Permission denied", doc |-> NoDoc]]]
          /\ UNCHANGED file
    /\ UNCHANGED env

\* json.dump(data, f, indent=2, ensure_ascii=False), the close of the file and
\* return out_json; or an I/O error after part of the text was written
Write(p) ==
    /\ call[p].pc = "write"
    /\ LET f == OutPath(call[p])
           chars == json_dump(call[p].data)
       IN  \/ /\ file' = [file EXCEPT ![f] = WriteAt(@, call[p].pos, chars)]
              /\ call' = [call EXCEPT ![p] =
                            [@ EXCEPT !.pc = "returned", !.ret = call[p].out,
                                      !.seen = file'[call[p].out]]]
           \/ \E k \in CutPoints(chars) :
                /\ file' = [file EXCEPT ![f] = WriteAt(@, call[p].pos, SubSeq(chars, 1, k))]
                /\ call' = [call EXCEPT ![p] =
                              [@ EXCEPT !.pc = "failed",
                                        !.err = [kind |-> "OSError", msg |-> "No space left on device",
                                                 doc |-> NoDoc]]]
    /\ UNCHANGED env

\* ------------------------------------------------------------------------
\* Specifications
\* ------------------------------------------------------------------------
Step(p) ==
    \/ \E d \in Docs, f \in Paths : Call(p, d, f)
    \/ Extract(p)
    \/ \E t \in ClientTexts : CallClient(p, t)
    \/ Client(p)
    \/ Create(p)
    \/ Open(p)
    \/ Write(p)

\* one call site: invocations follow each other
Next == Step(1)

Spec == Init /\ [][Next]_vars

\* the runtime and the documents of the concurrent specification
ConcEnvs == {[installed |-> Modules, key |-> "sk-test"]}

ConcDocs == {DocTxt, DocEmptyTxt}

InitConc == Init /\ env \in ConcEnvs

\* the one call of the driver a call site makes in the concurrent specification
FirstCall(p, d, f) == call[p].pc = "idle" /\ Call(p, d, f)

\* NumProcs call sites, each calling the driver once, concurrently
NextConc ==
    \E p \in Procs :
        \/ \E d \in ConcDocs, f \in Paths : FirstCall(p, d, f)
        \/ Extract(p)
        \/ Client(p)
        \/ Create(p)
        \/ Open(p)
        \/ Write(p)

SpecConc == InitConc /\ [][NextConc]_vars

\* ------------------------------------------------------------------------
\* The extractor on .txt files written in the candidate encodings
\* ------------------------------------------------------------------------
\* the characters of the strings: "a", newline, e-acute, the euro sign
TxtAlphabet == {97, 10, 233, 8364}

\* the logical strings of at most MaxStrLen characters
TxtStrings == UNION {[1..n -> TxtAlphabet] : n \in 0..MaxStrLen}

\* str.encode("utf-8") of one code point
EncodeUtf8Char(c) ==
    IF c < 128 THEN <<c>>
    ELSE IF c < 2048 THEN <<192 + (c \div 64), 128 + (c % 64)>>
    ELSE IF c < 65536 THEN <<224 + (c \div 4096), 128 + ((c \div 64) % 64), 128 + (c % 64)>>
    ELSE <<240 + (c \div 262144), 128 + ((c \div 4096) % 64), 128 + ((c \div 64) % 64), 128 + (c % 64)>>

\* str.encode("utf-16") of one code point, after the byte-order mark
EncodeUtf16Char(c) ==
    IF c < 65536 THEN <<c % 256, c \div 256>>
    ELSE LET hi == 55296 + ((c - 65536) \div 1024)
             lo == 56320 + ((c - 65536) % 1024)
         IN  <<hi % 256, hi \div 256, lo % 256, lo \div 256>>

\* the character has a byte in the encoding
EncodableChar(c, enc) ==
    CASE enc \in {"latin-1", "iso-8859-1"} -> c <= 255
      [] enc = "cp1252" -> \/ c < 128
                           \/ c >= 160 /\ c <= 255
                           \/ \E b \in DOMAIN Cp1252High : Cp1252High[b] = c
      [] OTHER -> TRUE

Encodable(str, enc) == \A i \in 1..Len(str) : EncodableChar(str[i], enc)

\* str.encode(enc) of an encodable string
Encode(str, enc) ==
    CASE enc = "utf-8" -> Concat([i \in 1..Len(str) |-> EncodeUtf8Char(str[i])])
      [] enc = "utf-16" -> <<255, 254>> \o Concat([i \in 1..Len(str) |-> EncodeUtf16Char(str[i])])
      [] enc = "cp1252" ->
            [i \in 1..Len(str) |->
                IF str[i] < 128 \/ (str[i] >= 160 /\ str[i] <= 255) THEN str[i]
                ELSE CHOOSE b \in DOMAIN Cp1252High : Cp1252High[b] = str[i]]
      [] OTHER -> str

CandidateEncodings == {"utf-8", "latin-1", "cp1252", "iso-8859-1", "utf-16"}

\* a .txt file that holds str in the encoding enc
TxtFile(str, enc) == MkDoc(NameTxt, Encode(str, enc), <<>>, <<>>, <<>>, FALSE)

\* .txt files that are no text in UTF-8, cp1252 or UTF-16
RawTxtFiles ==
    {MkDoc(NameTxt, bs, <<>>, <<>>, <<>>, FALSE) : bs \in {<<129>>, <<255, 254, 0>>, <<237, 160, 128>>}}

TxtDocs ==
    {TxtFile(s, e) : <<s, e>> \in {x \in TxtStrings \X CandidateEncodings : Encodable(x[1], x[2])}}
        \cup RawTxtFiles

InitTxt == Init /\ env \in ConcEnvs

\* extract_text on the .txt files, called through the driver
NextTxt ==
    \/ \E d \in TxtDocs : Call(1, d, DefaultOut)
    \/ Extract(1)
    \/ Client(1)

SpecTxt == InitTxt /\ [][NextTxt]_vars

\* ------------------------------------------------------------------------
\* Properties
\* ------------------------------------------------------------------------
Driver(p) == call[p].mode = "driver" /\ call[p].pc # "idle"

\* llm_extract_resume was entered and its checks before the client were made
ClientEntered(p) == call[p].clientText # NotEntered /\ call[p].pc # "client"

KeyMissing == env.key \in {None, ""}

AllWhitespace(t) == \A i \in 1..Len(t) : t[i] \in WhitespaceCodePoints

ConfigurationError == [kind |-> "RuntimeError", msg |-> KeyMsg, doc |-> NoDoc]

EmptyContent == [kind |-> "ValueError", msg |-> EmptyMsg, doc |-> NoDoc]

\* C1: every invocation of the driver either returns out_json with the file at
\* out_json holding the complete serialized record, or fails and leaves the
\* file at out_json as it was when the invocation started.
C1_CompleteRecordOrNoFile ==
    \A p \in Procs :
        Driver(p) /\ Finished(p) =>
            \/ /\ call[p].pc = "returned"
               /\ call[p].ret = call[p].out
               /\ file[call[p].out] = json_dump(call[p].data)
            \/ /\ call[p].pc = "failed"
               /\ file[call[p].out] = call[p].before

\* C2: the driver never enters llm_extract_resume with empty or whitespace-only
\* text; when the extracted text is empty or whitespace-only the driver fails
\* with the empty-content ValueError, without a call of the client.
C2_ClientNeverGetsBlankText ==
    \A p \in Procs :
        Driver(p) =>
            /\ call[p].clientText # NotEntered => ~AllWhitespace(call[p].clientText)
            /\ LET r == extract_text(call[p].doc, env)
               IN  call[p].pc # "extract" /\ r.ok /\ AllWhitespace(r.val) =>
                       /\ call[p].pc = "failed"
                       /\ call[p].err = EmptyContent
                       /\ call[p].clientText = NotEntered
                       /\ call[p].netCalls = 0

C2_Witness ==
    \E p \in Procs :
        /\ Driver(p) /\ call[p].doc = DocBlankTxt /\ env.key = None
        /\ call[p].pc = "failed" /\ call[p].err = EmptyContent

\* C3 as claimed: with OPENAI_API_KEY unset or empty every invocation of
\* llm_extract_resume fails with the configuration error and no network call.
C3_MissingKeyIsConfigurationError ==
    \A p \in Procs :
        KeyMissing /\ ClientEntered(p) =>
            /\ call[p].pc = "failed"
            /\ call[p].err = ConfigurationError
            /\ call[p].netCalls = 0

\* C3 as amended: with OPENAI_API_KEY unset or empty every invocation of
\* llm_extract_resume fails without a network call, with the configuration
\* error when the openai package is importable and with the ImportError that
\* names the package when it is not.
C3_MissingKeyNoNetwork ==
    \A p \in Procs :
        KeyMissing =>
            /\ call[p].netCalls = 0
            /\ ClientEntered(p) =>
                  /\ call[p].pc = "failed"
                  /\ call[p].err = IF "openai" \in env.installed THEN ConfigurationError
                                   ELSE [kind |-> "ImportError", msg |-> OpenAIMsg, doc |-> NoDoc]

C3_Witness ==
    \E p \in Procs :
        /\ env.key = "" /\ "openai" \in env.installed
        /\ call[p].mode = "client" /\ call[p].clientText = <<>>
        /\ call[p].pc = "failed" /\ call[p].err = ConfigurationError /\ call[p].netCalls = 0

\* C4 as claimed: with the credential missing the driver fails with the
\* credential error before the document is read, for every document.
C4_KeyCheckedBeforeProcessing ==
    \A p \in Procs :
        KeyMissing /\ Driver(p) /\ call[p].pc # "extract" =>
            /\ call[p].pc = "failed"
            /\ call[p].err = ConfigurationError
            /\ call[p].used = <<>>

\* C4 as amended: with the credential missing every invocation of the driver
\* fails with no network call and with the output file untouched; the error is
\* the credential error exactly when text extraction succeeded with text that
\* is not blank and the openai package is importable, and then the document
\* has been read.
C4_MissingKeyFailsWithoutNetworkOrOutput ==
    \A p \in Procs :
        KeyMissing /\ Driver(p) =>
            /\ call[p].netCalls = 0
            /\ file[call[p].out] = call[p].before
            /\ call[p].pc \in {"extract", "client", "failed"}
            /\ call[p].pc = "failed" =>
                  LET r == extract_text(call[p].doc, env)
                  IN  /\ call[p].err = ConfigurationError <=>
                            r.ok /\ ~AllWhitespace(r.val) /\ "openai" \in env.installed
                      /\ call[p].err = ConfigurationError =>
                            call[p].used # <<>> /\ call[p].text = r.val

C4_Witness ==
    \E p \in Procs :
        /\ env.key = None /\ "openai" \in env.installed
        /\ Driver(p) /\ call[p].doc = DocTxt
        /\ call[p].pc = "failed" /\ call[p].err = ConfigurationError
        /\ call[p].used = <<"utf-8">> /\ call[p].text = <<97, 10>>
        /\ call[p].netCalls = 0 /\ file[call[p].out] = call[p].before

\* C5: an invocation makes at most one call to the remote model; a network
\* failure or a response that is not valid JSON ends the invocation.
C5_AtMostOneRemoteCall ==
    \A p \in Procs :
        /\ call[p].netCalls <= 1
        /\ call[p].pc = "net" => call[p].netCalls = 0
        /\ call[p].pc \in {"open", "write", "returned"} => call[p].netCalls = 1
        /\ call[p].err.kind \in {"APIConnectionError", "JSONDecodeError", "TypeError"} =>
              call[p].pc = "failed" /\ call[p].netCalls = 1

C5_Witness ==
    \E p \in Procs :
        /\ Driver(p) /\ call[p].pc = "failed" /\ call[p].netCalls = 1
        /\ call[p].err.kind = "APIConnectionError"

\* C6: when the driver returns from a call that follows a returned call of the
\* same call site on the same document and output path, and the client gave the
\* same response both times, the output file is the file the first call left.
C6_SecondCallLeavesSameFile ==
    \A p \in Procs :
        /\ Driver(p) /\ call[p].pc = "returned"
        /\ call[p].prevOk /\ call[p].prevResp = call[p].resp
        => file[call[p].out] = call[p].before

C6_Witness ==
    \E p \in Procs :
        /\ Driver(p) /\ call[p].pc = "returned"
        /\ call[p].prevOk /\ call[p].prevResp = call[p].resp
        /\ call[p].resp = RespLonger
        /\ file[call[p].out] = call[p].before
        /\ call[p].before = json_dump(call[p].data)

\* C7 as claimed: in every interleaving of concurrent calls of the driver, a
\* call that returns leaves at its output path the complete record of its own
\* client call.
C7_AnyInterleavingSafe ==
    \A p \in Procs :
        Driver(p) /\ call[p].pc = "returned" => call[p].seen = json_dump(call[p].data)

\* C7 as amended: a call of the driver that returns, and during which no other
\* call of the driver ran with the same output path, leaves at its output path
\* the complete record parsed from its own response.
C7_DistinctPathsSafe ==
    \A p \in Procs :
        Driver(p) /\ call[p].pc = "returned" /\ ~call[p].shared =>
            /\ call[p].seen = json_dump(call[p].data)
            /\ call[p].ret = call[p].out
            /\ json_loads(call[p].resp).val = call[p].data

C7_Witness ==
    \E p, q \in Procs :
        /\ p # q /\ call[p].pc = "returned" /\ call[q].pc = "returned"
        /\ call[p].out # call[q].out /\ ~call[p].shared /\ ~call[q].shared
        /\ call[p].resp = RespMinimal /\ call[q].resp = RespLonger
        /\ file[call[p].out] = json_dump(call[p].data)
        /\ file[call[q].out] = json_dump(call[q].data)

\* the responses of the model that are text but not valid JSON
MalformedResponses == {RespTruncated, RespEmpty, RespExtra, RespProse}

\* C8: when the response is not valid JSON, llm_extract_resume raises
\* JSONDecodeError carrying the raw response and returns no record; the driver
\* fails with that error and leaves the output file untouched.
C8_MalformedResponseRaises ==
    \A p \in Procs :
        call[p].resp \in MalformedResponses =>
            /\ call[p].pc = "failed"
            /\ call[p].err.kind = "JSONDecodeError"
            /\ call[p].err.doc = call[p].resp
            /\ call[p].data = JNull
            /\ call[p].ret = ""
            /\ Driver(p) => file[call[p].out] = call[p].before

C8_Witness ==
    \E p \in Procs :
        /\ Driver(p) /\ call[p].resp = RespExtra /\ call[p].pc = "failed"
        /\ call[p].err.doc = RespExtra /\ file[call[p].out] = call[p].before

\* C9: extract_text on a .txt file that holds a string in one of the five
\* candidate encodings returns that string, and never raises a decode error.
C9_TxtRoundTrips ==
    \A p \in Procs :
        Driver(p) /\ call[p].pc # "extract" =>
            /\ call[p].err.kind # "UnicodeDecodeError"
            /\ \A str \in TxtStrings, enc \in CandidateEncodings :
                  Encodable(str, enc) /\ call[p].doc = TxtFile(str, enc) =>
                      call[p].text = str

IsPdf(d) == SuffixLower(d.name) = <<".", "p", "d", "f">>

\* C10: on a .pdf, when the primary provider is importable only it runs and its
\* result or error is the outcome; the secondary provider runs exactly when the
\* primary is not importable and the secondary is; with neither, extract_text
\* raises the ImportError that names the providers to install.
C10_PdfProviderSelection ==
    \A p \in Procs :
        Driver(p) /\ call[p].pc # "extract" /\ IsPdf(call[p].doc) =>
            LET d == call[p].doc
                primary == "fitz" \in env.installed
                secondary == "PyPDF2" \in env.installed
            IN  /\ primary => call[p].used = <<"fitz">>
                /\ primary /\ d.corrupt =>
                      call[p].pc = "failed" /\ call[p].err.kind = "FileDataError"
                /\ primary /\ ~d.corrupt =>
                      call[p].text = Concat([i \in 1..Len(d.pages) |-> d.pages[i].fitz])
                /\ (\E i \in 1..Len(call[p].used) : call[p].used[i] = "PyPDF2")
                      <=> (~primary /\ secondary)
                /\ ~primary /\ ~secondary =>
                      /\ call[p].pc = "failed"
                      /\ call[p].err = [kind |-> "ImportError", msg |-> PdfInstallHint, doc |-> NoDoc]
                      /\ call[p].used = <<>>

C10_Witness ==
    \E p \in Procs :
        /\ Driver(p) /\ call[p].doc = DocBadPdf /\ env.installed = Modules
        /\ call[p].pc = "failed" /\ call[p].err.kind = "FileDataError"
        /\ call[p].used = <<"fitz">>

====
